---- MODULE Spec2Model ----
(***************************************************************************)
(* A model of bot.py of TG_Bot_CinemaGuide: the message splitter           *)
(* split_message, the three memoized provider search functions, the        *)
(* generative fallback get_mistral_response and the handler                *)
(* handle_message.                                                         *)
(*                                                                         *)
(* Text is a sequence of one-character strings, so slicing, rfind, join,   *)
(* replace, strip and lower are computed position by position.  The        *)
(* module is written in ASCII: the Cyrillic literals of the source are     *)
(* transliterated letter by letter (the trigger keyword of line 177 is     *)
(* "rekomendacii").                                                        *)
(***************************************************************************)
EXTENDS Integers, Sequences, FiniteSets, TLC

VARIABLES
    \* ---- split_message (lines 160-172) ----
    text0,        \* the argument `message` as passed by the caller
    max_length,   \* the argument `max_length`
    message,      \* the local `message`: the text still to be split
    parts,        \* the local `parts`
    sm_pc,        \* "loop": at the head of the while loop; "done": returned;
                  \* "idle": split_message is not running on its own
    \* ---- the process ----
    cache,        \* the lru_cache of each provider function (lines 65, 91, 127)
    handled,      \* the number of updates handle_message has been run on
    last          \* what the last run of handle_message did

splitvars == <<text0, max_length, message, parts, sm_pc>>

botvars == <<cache, handled, last>>

vars == <<text0, max_length, message, parts, sm_pc,
          cache, handled, last>>

\* ------------------------------------------------------------------ bounds
MaxTextLen == 5
MaxM == 3
MaxParts == 8
MaxHandled == 1
MaxRepeats == 2

\* ------------------------------------------------------- program constants
DefaultMaxLength == 4096
CacheMaxSize == 128

\* -------------------------------------------------------------- text tools
NL == "\n"

Min(a, b) == IF a <= b THEN a ELSE b

\* s[:n] for n >= 0
Prefix(s, n) == SubSeq(s, 1, Min(n, Len(s)))

\* s[n:] for n >= 0
Suffix(s, n) == SubSeq(s, n + 1, Len(s))

\* str.rfind(c): the 0-based index of the last c in s, -1 when there is none
rfind(s, c) ==
    LET at == {i \in 1..Len(s) : s[i] = c}
    IN  IF at = {} THEN -1
        ELSE (CHOOSE i \in at : \A j \in at : j <= i) - 1

RECURSIVE Concat(_)
Concat(ss) == IF ss = <<>> THEN <<>> ELSE Head(ss) \o Concat(Tail(ss))

\* ----------------------------------------------------------- split_message
\* line 166: part = message[:max_length]
Window(msg, m) == Prefix(msg, m)

\* lines 167-169: cut the window at its last newline, when it has one
CutAtNewline(part) ==
    LET last_newline == rfind(part, NL)
    IN  IF last_newline # -1 THEN Prefix(part, last_newline) ELSE part

\* a variant of line 171 that also drops the character at the cut; C3
\* tells it from the code
RemainderSkipsOne(msg, part) == Suffix(msg, Len(part) + 1)

\* line 171: message = message[len(part):]
Remainder(msg, part) == Suffix(msg, Len(part))

\* One pass through the body of the while loop (lines 163-171), for a
\* non-empty msg: the new (message, parts) and whether the loop was left.
SplitBody(msg, m, ps) ==
    IF Len(msg) <= m
    THEN [message |-> msg, parts |-> Append(ps, msg), done |-> TRUE]
    ELSE LET part == CutAtNewline(Window(msg, m))
         IN  [message |-> Remainder(msg, part),
              parts   |-> Append(ps, part),
              done    |-> FALSE]

\* split_message as a function, for callers whose text fits the loop.
RECURSIVE SplitLoop(_, _, _)
SplitLoop(msg, m, ps) ==
    IF msg = <<>> THEN ps
    ELSE LET r == SplitBody(msg, m, ps)
         IN  IF r.done THEN r.parts ELSE SplitLoop(r.message, m, r.parts)

split_message(msg, m) == SplitLoop(msg, m, <<>>)

\* ------------------------------------------------- inputs of split_message
Alphabet == {"a", "b", NL}

RECURSIVE TextsOfLen(_)
TextsOfLen(n) ==
    IF n = 0 THEN {<<>>}
    ELSE {Append(t, c) : t \in TextsOfLen(n - 1), c \in Alphabet}

Texts == UNION {TextsOfLen(n) : n \in 0..MaxTextLen}

\* "abcde\nfghij\nklmno"
ExampleText ==
    <<"a","b","c","d","e",NL,"f","g","h","i","j",NL,"k","l","m","n","o">>

\* a 10,000-character text with no newline
LongText == [i \in 1..10000 |-> "a"]

\* every short text with every short window, "abcde\nfghij\nklmno" with a
\* window of 10, and the long text with the default window
SplitInputs ==
    (Texts \X (1..MaxM))
        \cup {<<ExampleText, 10>>, <<LongText, DefaultMaxLength>>}

\* ------------------------------------------------------- str, as bot.py uses it
Whitespace == {" ", NL, "\t"}

RECURSIVE lstrip(_)
lstrip(s) == IF s # <<>> /\ Head(s) \in Whitespace THEN lstrip(Tail(s)) ELSE s

RECURSIVE rstrip(_)
rstrip(s) ==
    IF s # <<>> /\ s[Len(s)] \in Whitespace
    THEN rstrip(SubSeq(s, 1, Len(s) - 1))
    ELSE s

\* str.strip()
strip(s) == rstrip(lstrip(s))

LowerChar(c) ==
    CASE c = "R" -> "r" [] c = "E" -> "e" [] c = "K" -> "k" [] c = "O" -> "o"
      [] c = "M" -> "m" [] c = "N" -> "n" [] c = "D" -> "d" [] c = "A" -> "a"
      [] c = "C" -> "c" [] c = "I" -> "i" [] OTHER -> c

\* str.lower()
lower(s) == [i \in 1..Len(s) |-> LowerChar(s[i])]

StartsWith(s, p) == Len(p) <= Len(s) /\ SubSeq(s, 1, Len(p)) = p

\* sub in s
Contains(s, sub) ==
    \E i \in 0..(Len(s) - Len(sub)) : SubSeq(s, i + 1, i + Len(sub)) = sub

\* the number of places where sub occurs in s
Occurrences(s, sub) ==
    Cardinality({i \in 0..(Len(s) - Len(sub)) : SubSeq(s, i + 1, i + Len(sub)) = sub})

\* str.replace(old, ""): every occurrence of old, left to right, is removed
RECURSIVE remove(_, _)
remove(s, old) ==
    IF Len(s) < Len(old) THEN s
    ELSE IF StartsWith(s, old) THEN remove(Suffix(s, Len(old)), old)
    ELSE <<Head(s)>> \o remove(Tail(s), old)

\* sep.join(ss)
RECURSIVE join(_, _)
join(sep, ss) ==
    IF ss = <<>> THEN <<>>
    ELSE IF Len(ss) = 1 THEN ss[1]
    ELSE ss[1] \o sep \o join(sep, Tail(ss))

\* s.split(c)[0]: s up to its first c, all of s when it has none
SplitFirst(s, c) ==
    LET at == {i \in 1..Len(s) : s[i] = c}
    IN  IF at = {} THEN s
        ELSE SubSeq(s, 1, (CHOOSE i \in at : \A j \in at : i <= j) - 1)

\* ------------------------------------------------ the literals of bot.py
\* line 177: the trigger keyword
KEYWORD == <<"r","e","k","o","m","e","n","d","a","c","i","i">>

\* line 180
PROMPT == <<"P","o","z","h","a","l","u","j","s","t","a",","," ","u","k","a","z","h","i","t","e",","," ","c","h","t","o"," ","v","y"," ","h","o","t","i","t","e"," ","n","a","j","t","i"," ","(","n","a","p","r","i","m","e","r",","," ","r","e","k","o","m","e","n","d","a","c","i","i"," ","f","i","l","'","m","y",")",".">>

\* lines 85, 121, 150, 224
NOT_FOUND == <<"I","z","v","i","n","i","t","e",","," ","n","i","c","h","e","g","o"," ","n","e"," ","n","a","j","d","e","n","o",".">>

\* lines 88, 124, 153
FETCH_ERROR == <<"P","r","o","i","z","o","s","h","l","a"," ","o","s","h","i","b","k","a"," ","p","r","i"," ","p","o","l","u","c","h","e","n","i","i"," ","d","a","n","n","y","h","."," ","P","o","p","r","o","b","u","j","t","e"," ","s","n","o","v","a"," ","p","o","z","z","h","e",".">>

\* lines 55, 58, 238
REQUEST_ERROR == <<"P","r","o","i","z","o","s","h","l","a"," ","o","s","h","i","b","k","a"," ","p","r","i"," ","o","b","r","a","b","o","t","k","e"," ","z","a","p","r","o","s","a","."," ","P","o","p","r","o","b","u","j","t","e"," ","s","n","o","v","a"," ","p","o","z","z","h","e",".">>

\* line 62
MISTRAL_ANSWER_ERROR == <<"P","r","o","i","z","o","s","h","l","a"," ","o","s","h","i","b","k","a"," ","v"," ","o","t","v","e","t","e"," ","o","t"," ","M","i","s","t","r","a","l"," ","A","P","I","."," ","P","o","p","r","o","b","u","j","t","e"," ","s","n","o","v","a"," ","p","o","z","z","h","e",".">>

\* lines 191, 194, 197: the label lines
LABEL_OMDB == <<"R","e","k","o","m","e","n","d","a","c","i","i"," ","s"," ","O","M","D","b"," ","A","P","I",":">>

LABEL_TMDB == <<"R","e","k","o","m","e","n","d","a","c","i","i"," ","s"," ","T","M","D","b"," ","A","P","I",":">>

LABEL_BOOKS == <<"R","e","k","o","m","e","n","d","a","c","i","i"," ","s"," ","G","o","o","g","l","e"," ","B","o","o","k","s"," ","A","P","I",":">>

\* lines 216, 219, 222
POSTER_FAILED_HEAD == <<"N","e"," ","u","d","a","l","o","s","'"," ","o","t","p","r","a","v","i","t","'"," ","p","o","s","t","e","r",":"," ">>

POSTER_FAILED_TAIL == <<"."," ","P","o","p","r","o","b","u","j","t","e"," ","s","n","o","v","a"," ","p","o","z","z","h","e",".">>

\* lines 77, 104, 112, 140
NO_TITLE == <<"N","a","z","v","a","n","i","e"," ","n","e"," ","u","k","a","z","a","n","o">>

\* lines 78, 105, 107, 113, 115
NO_YEAR == <<"G","o","d"," ","v","y","p","u","s","k","a"," ","n","e"," ","u","k","a","z","a","n">>

\* line 141
NO_AUTHOR == <<"A","v","t","o","r"," ","n","e"," ","u","k","a","z","a","n">>

\* line 142
NO_PUBLISHED == <<"G","o","d"," ","i","z","d","a","n","i","j","a"," ","n","e"," ","u","k","a","z","a","n">>

\* lines 107, 115, 145
MOVIE_PREFIX == <<"F","i","l","'","m",":"," ">>

SERIES_PREFIX == <<"S","e","r","i","a","l",":"," ">>

BOOK_PREFIX == <<"K","n","i","g","a",":"," ">>

AUTHORS_INFIX == <<" ","-"," ","A","v","t","o","r","y",":"," ">>

\* line 29
TMDB_IMAGE_BASE_URL == <<"h","t","t","p","s",":","/","/","i","m","a","g","e",".","t","m","d","b",".","o","r","g","/","t","/","p","/","w","5","0","0">>

\* line 81: the provider's "no poster" value
NOT_AVAILABLE == <<"N","/","A">>

\* line 72
TRUE_STR == <<"T","r","u","e">>

FALSE_STR == <<"F","a","l","s","e">>

\* --------------------------------------------------------- JSON and results
\* a key the JSON object does not have
Absent == <<"<absent>">>

\* dict.get(key, default)
Get(v, default) == IF v = Absent THEN default ELSE v

\* the truth value of a string or list read with dict.get(key)
Truthy(v) == v # Absent /\ v # <<>>

\* what a provider function does: returns (text, media), or raises exc
Returns(text, media) == [exc |-> "", text |-> text, media |-> media]

Raises(exc) == [exc |-> exc, text |-> <<>>, media |-> <<>>]

\* requests.get, raise_for_status and response.json() (lines 69-71, 95-97,
\* 131-133, 48-50): the exception they raise on this reply, "" when none.
\* A reply is: no answer in 30 s ("timeout"), an error status
\* ("http_error"), a body that is not JSON, on which response.json() raises
\* requests.exceptions.JSONDecodeError ("bad_json": requests 2.27 and later)
\* or a plain ValueError ("bad_json_legacy": older requests), a JSON body
\* that is not an object ("not_object", such as []), or a JSON object ("ok").
HttpException(reply) ==
    CASE reply.kind = "timeout"         -> "Timeout"
      [] reply.kind = "http_error"      -> "HTTPError"
      [] reply.kind = "bad_json"        -> "JSONDecodeError"
      [] reply.kind = "bad_json_legacy" -> "ValueError"
      [] OTHER -> ""

\* the classes `except requests.exceptions.RequestException` catches
IsRequestException(exc) == exc \in {"Timeout", "HTTPError", "JSONDecodeError"}

\* ------------------------------------- get_recommendations_omdb (lines 66-88)
\* line 80: f"{title} ({year})"
OmdbLine(item) ==
    Get(item.Title, NO_TITLE) \o <<" ", "(">> \o Get(item.Year, NO_YEAR) \o <<")">>

\* line 81: if poster_url and poster_url != "N/A"
OmdbHasPoster(item) == Truthy(item.Poster) /\ item.Poster # NOT_AVAILABLE

\* lines 76-82: the media entries, one (url, caption) per item with a poster
RECURSIVE OmdbMedia(_)
OmdbMedia(results) ==
    IF results = <<>> THEN <<>>
    ELSE (IF OmdbHasPoster(Head(results))
          THEN << <<Head(results).Poster, OmdbLine(Head(results))>> >>
          ELSE <<>>) \o OmdbMedia(Tail(results))

\* the body of get_recommendations_omdb on the reply the request gets
omdb_search(reply) ==
    LET exc == HttpException(reply)
    IN  IF exc # ""
        THEN IF IsRequestException(exc) THEN Returns(FETCH_ERROR, <<>>)
                                        ELSE Raises(exc)
        ELSE IF reply.kind = "not_object" THEN Raises("AttributeError")
        ELSE IF reply.data.Response = TRUE_STR
        THEN LET results == reply.data.Search
             IN  Returns(join(<<NL>>, [i \in 1..Len(results) |-> OmdbLine(results[i])]),
                         OmdbMedia(results))
        ELSE Returns(NOT_FOUND, <<>>)

\* ------------------------------------ get_recommendations_tmdb (lines 92-124)
\* lines 107, 115: date.split('-')[0] if date else 'God vypuska ne ukazan'
TmdbYear(date) ==
    LET d == Get(date, NO_YEAR)
    IN  IF d # <<>> THEN SplitFirst(d, "-") ELSE NO_YEAR

\* lines 107, 115: the summary line of a movie or tv item
TmdbLine(item) ==
    IF item.media_type = "movie"
    THEN MOVIE_PREFIX \o Get(item.title, NO_TITLE)
             \o <<" ", "(">> \o TmdbYear(item.release_date) \o <<")">>
    ELSE SERIES_PREFIX \o Get(item.name, NO_TITLE)
             \o <<" ", "(">> \o TmdbYear(item.first_air_date) \o <<")">>

\* lines 102-118: one line per movie or tv item, other items are skipped
RECURSIVE TmdbLines(_)
TmdbLines(results) ==
    IF results = <<>> THEN <<>>
    ELSE (IF Head(results).media_type \in {"movie", "tv"}
          THEN <<TmdbLine(Head(results))>>
          ELSE <<>>) \o TmdbLines(Tail(results))

\* lines 108-110, 116-118: a media entry per movie or tv item with a poster
RECURSIVE TmdbMedia(_)
TmdbMedia(results) ==
    IF results = <<>> THEN <<>>
    ELSE (IF /\ Head(results).media_type \in {"movie", "tv"}
             /\ Truthy(Head(results).poster_path)
          THEN << <<TMDB_IMAGE_BASE_URL \o Head(results).poster_path,
                    TmdbLine(Head(results))>> >>
          ELSE <<>>) \o TmdbMedia(Tail(results))

tmdb_search(reply) ==
    LET exc == HttpException(reply)
    IN  IF exc # ""
        THEN IF IsRequestException(exc) THEN Returns(FETCH_ERROR, <<>>)
                                        ELSE Raises(exc)
        ELSE IF reply.kind = "not_object" THEN Raises("AttributeError")
        ELSE IF reply.data.results # <<>>
        THEN Returns(join(<<NL>>, TmdbLines(reply.data.results)),
                     TmdbMedia(reply.data.results))
        ELSE Returns(NOT_FOUND, <<>>)

\* ---------------------------------- get_recommendations_books (lines 128-153)
\* line 141
BookAuthors(info) ==
    IF info.authors # <<>> THEN join(<<",", " ">>, info.authors) ELSE NO_AUTHOR

\* line 145: f"Kniga: {title} ({published_date}) - Avtory: {authors}"
BookLine(item) ==
    LET info == item.volumeInfo
    IN  BOOK_PREFIX \o Get(info.title, NO_TITLE)
            \o <<" ", "(">> \o Get(info.publishedDate, NO_PUBLISHED) \o <<")">>
            \o AUTHORS_INFIX \o BookAuthors(info)

\* lines 143-147
RECURSIVE BooksMedia(_)
BooksMedia(results) ==
    IF results = <<>> THEN <<>>
    ELSE (IF Truthy(Head(results).volumeInfo.imageLinks.thumbnail)
          THEN << <<Head(results).volumeInfo.imageLinks.thumbnail,
                    BookLine(Head(results))>> >>
          ELSE <<>>) \o BooksMedia(Tail(results))

books_search(reply) ==
    LET exc == HttpException(reply)
    IN  IF exc # ""
        THEN IF IsRequestException(exc) THEN Returns(FETCH_ERROR, <<>>)
                                        ELSE Raises(exc)
        ELSE IF reply.kind = "not_object" THEN Raises("AttributeError")
        ELSE IF reply.data.items # <<>>
        THEN LET results == reply.data.items
             IN  Returns(join(<<NL>>, [i \in 1..Len(results) |-> BookLine(results[i])]),
                         BooksMedia(results))
        ELSE Returns(NOT_FOUND, <<>>)

\* ------------------------------------ @lru_cache(maxsize=128), lines 65, 91, 127
\* c is the cache, least recently used entry first.  A hit returns the stored
\* value and makes the entry the most recent; a miss runs the function, and
\* stores what it returns (nothing when it raises), evicting the least
\* recently used entry of a full cache.
CacheIndex(c, q) ==
    IF \E i \in 1..Len(c) : c[i].key = q
    THEN CHOOSE i \in 1..Len(c) : c[i].key = q
    ELSE 0

WithoutEntry(c, i) == SubSeq(c, 1, i - 1) \o SubSeq(c, i + 1, Len(c))

lru_cache(c, q, fresh) ==
    LET i == CacheIndex(c, q)
    IN  IF i # 0
        THEN [result |-> c[i].value, cache |-> Append(WithoutEntry(c, i), c[i])]
        ELSE IF fresh.exc # "" THEN [result |-> fresh, cache |-> c]
        ELSE LET added == Append(c, [key |-> q, value |-> fresh])
             IN  [result |-> fresh,
                  cache  |-> IF Len(added) > CacheMaxSize THEN Tail(added)
                                                          ELSE added]

\* ---------------------------------------- get_mistral_response (lines 32-62)
\* what a request gets: the kind of reply and, for "ok", the JSON object
Reply(kind, data) == [kind |-> kind, data |-> data]

\* the answer {choices: [{message: {content}}]}: whether it has 'choices',
\* the choices, and in a choice whether 'message' is absent, an object or a
\* string, and the 'content' of the object
MistralData(has_choices, choices) == [has_choices |-> has_choices, choices |-> choices]

MistralChoice(msg, content) == [message |-> msg, content |-> content]

NoMistralReply == Reply("none", MistralData(FALSE, <<>>))

\* line 51: data['choices'][0]['message']['content'].strip(), step by step:
\* the exception the lookups raise, "" when there is none
MistralLookupException(data) ==
    IF ~data.has_choices THEN "KeyError"
    ELSE IF data.choices = <<>> THEN "IndexError"
    ELSE LET choice == data.choices[1]
         IN  IF choice.message = "absent" THEN "KeyError"
             ELSE IF choice.message = "string" THEN "TypeError"
             ELSE IF choice.content = Absent THEN "KeyError"
             ELSE ""

\* what get_mistral_response does on the reply its request gets
get_mistral_response(reply) ==
    LET exc == HttpException(reply)
    IN  IF exc = "HTTPError" THEN Returns(REQUEST_ERROR, <<>>)
        ELSE IF exc # ""
        THEN IF IsRequestException(exc) THEN Returns(REQUEST_ERROR, <<>>)
                                        ELSE Raises(exc)
        ELSE LET lookup == MistralLookupException(reply.data)
             IN  IF lookup = "KeyError" THEN Returns(MISTRAL_ANSWER_ERROR, <<>>)
                 ELSE IF lookup # "" THEN Raises(lookup)
                 ELSE Returns(strip(reply.data.choices[1].content), <<>>)

\* ------------------------------------------------------------ the chat side
\* update.message.reply_text(text)
TextMsg(text) == [kind |-> "text", text |-> text, photo |-> <<>>]

\* update.message.reply_photo(photo=<the bytes fetched from url>, caption=caption)
PhotoMsg(url, caption) == [kind |-> "photo", text |-> caption, photo |-> url]

\* lines 202-203, 228-229: one reply_text per part, in order
TextMsgs(ps) == [i \in 1..Len(ps) |-> TextMsg(ps[i])]

\* lines 232-238: error_handler, run when handle_message raises
error_handler(sent) == Append(sent, TextMsg(REQUEST_ERROR))

\* ------------------------------------------- handle_message (lines 175-229)
Providers == {"omdb", "tmdb", "books"}

\* line 177: "rekomendacii" in user_message.lower()
IsTriggered(user_message) == Contains(lower(user_message), KEYWORD)

\* a variant of line 178 without .strip(); C9 tells it from the code
QueryNotStripped(user_message) == remove(user_message, KEYWORD)

\* line 178: user_message.replace("rekomendacii", "").strip()
Query(user_message) == strip(remove(user_message, KEYWORD))

\* lines 190-198: a provider's section of the reply text, and the media it
\* contributes, both only when its text is not empty
Section(label, r) ==
    IF r.text # <<>> THEN label \o <<NL>> \o r.text \o <<NL, NL>> ELSE <<>>

SectionMedia(r) == IF r.text # <<>> THEN r.media ELSE <<>>

\* a variant of lines 187-198 with the Google Books section before the TMDb
\* section; C6 tells it from the code
AggregateBooksSecond(r_omdb, r_tmdb, r_books) ==
    [response |-> Section(LABEL_OMDB, r_omdb) \o Section(LABEL_BOOKS, r_books)
                      \o Section(LABEL_TMDB, r_tmdb),
     media    |-> SectionMedia(r_omdb) \o SectionMedia(r_books)
                      \o SectionMedia(r_tmdb)]

\* lines 187-198: response and media
Aggregate(r_omdb, r_tmdb, r_books) ==
    [response |-> Section(LABEL_OMDB, r_omdb) \o Section(LABEL_TMDB, r_tmdb)
                      \o Section(LABEL_BOOKS, r_books),
     media    |-> SectionMedia(r_omdb) \o SectionMedia(r_tmdb)
                      \o SectionMedia(r_books)]

\* lines 216, 219, 222
PosterFailed(caption) ==
    TextMsg(POSTER_FAILED_HEAD \o caption \o POSTER_FAILED_TAIL)

\* what fetching an image can do (lines 211-212): "ok", or requests.get
\* raises Timeout, or raise_for_status raises HTTPError
FetchOutcomes == {"ok", "timeout", "http_error"}

\* a variant of lines 206-222 whose loop ends at the first failing entry; C7
\* tells it from the code
RECURSIVE RelayStopsAtFailure(_, _)
RelayStopsAtFailure(media, fetch) ==
    IF media = <<>> THEN <<>>
    ELSE IF Head(fetch) = "ok"
    THEN <<PhotoMsg(Head(media)[1], Head(media)[2])>>
             \o RelayStopsAtFailure(Tail(media), Tail(fetch))
    ELSE <<PosterFailed(Head(media)[2])>>

\* lines 206-222: for each (poster_url, caption) in order, the photo when the
\* fetch succeeds and the fallback text when it raises
Relay(media, fetch) ==
    [i \in 1..Len(media) |->
        IF fetch[i] = "ok" THEN PhotoMsg(media[i][1], media[i][2])
                           ELSE PosterFailed(media[i][2])]

NoResult == Returns(<<>>, <<>>)

NoResults == [p \in Providers |-> NoResult]

\* the record of a run that has not called anything yet
Run(user_message, branch, query) ==
    [user_message |-> user_message, branch |-> branch, query |-> query,
     exc |-> "", called |-> <<>>, got |-> NoResults,
     replied |-> [p \in Providers |-> "none"],
     drawn |-> {}, fresh |-> NoResults, mistral |-> NoMistralReply,
     response |-> <<>>, media |-> <<>>, fetch |-> <<>>, sent |-> <<>>]

NoRun == Run(<<>>, "none", <<>>)

\* On a cache hit the function's body does not run and no request is made:
\* there is no reply.  With probe, the model still draws the reply a request
\* made at that moment would get, to record in `fresh` what the call would
\* return without the cache.
NoRequest == [kind |-> "none"]

Asked(c, query, replies, probe) ==
    IF CacheIndex(c, query) # 0 /\ ~probe THEN {NoRequest} ELSE replies

\* the run after provider p was called with the reply drawn for it: the call
\* returned (or raised) got.  replied[p] is the kind of the reply when a
\* request was made, "hit" when the cache answered.
Called(run, p, got, reply, fresh, hit) ==
    IF reply.kind = "none"
    THEN [run EXCEPT !.called = Append(@, p), !.got[p] = got, !.exc = got.exc,
                     !.replied[p] = "hit"]
    ELSE [run EXCEPT !.called = Append(@, p), !.got[p] = got, !.exc = got.exc,
                     !.replied[p] = IF hit THEN "hit" ELSE reply.kind,
                     !.drawn = @ \cup {p}, !.fresh[p] = fresh]

\* the run ends: by returning, or by raising into error_handler
Ended(run, sent) ==
    [run EXCEPT !.sent = IF run.exc # "" THEN error_handler(sent) ELSE sent]

Finish(run, c) ==
    /\ last' = run
    /\ cache' = c
    /\ handled' = handled + 1
    /\ UNCHANGED splitvars

\* lines 200-224, once response and media are built
Send(run, c, agg, chunks) ==
    IF agg.response # <<>>
    THEN \E fetch \in [1..Len(agg.media) -> FetchOutcomes] :
            Finish(Ended([run EXCEPT !.response = agg.response,
                                     !.media = agg.media,
                                     !.fetch = fetch],
                         chunks \o Relay(agg.media, fetch)), c)
    ELSE Finish(Ended(run, <<TextMsg(NOT_FOUND)>>), c)

\* lines 187-224, once the three results are in
Deliver(run, c, agg) ==
    Send(run, c, agg, TextMsgs(split_message(agg.response, DefaultMaxLength)))

\* the body of provider p's search function
Search(p, reply) ==
    CASE p = "omdb"  -> omdb_search(reply)
      [] p = "tmdb"  -> tmdb_search(reply)
      [] p = "books" -> books_search(reply)

\* what a request made now returns; nothing when no reply was drawn
Fresh(p, reply) == IF reply.kind = "none" THEN NoResult ELSE Search(p, reply)

\* One of lines 183-185: the call get_recommendations_<p>(query), through
\* its lru_cache, on the reply the provider gives now: the run and the
\* caches after it.  r is what the decorated function gives.
Step(p, run, c, reply, fresh, r) ==
    [run   |-> Called(run, p, r.result, reply, fresh, CacheIndex(c[p], run.query) # 0),
     cache |-> [c EXCEPT ![p] = r.cache]]

Call(p, run, c, reply, fresh) ==
    Step(p, run, c, reply, fresh, lru_cache(c[p], run.query, fresh))

\* an exception of a search ends the run: the later providers are not
\* called and nothing is built or sent by handle_message
Raised(s) == Finish(Ended(s.run, <<>>), s.cache)

\* lines 187-224, after line 185
AfterBooks(s) ==
    IF s.run.exc # "" THEN Raised(s)
    ELSE Deliver(s.run, s.cache,
                 Aggregate(s.run.got["omdb"], s.run.got["tmdb"], s.run.got["books"]))

\* line 185, after line 184
AfterTmdb(s, BooksSet, probe) ==
    IF s.run.exc # "" THEN Raised(s)
    ELSE \E reply \in Asked(s.cache["books"], s.run.query, BooksSet, probe) :
            AfterBooks(Call("books", s.run, s.cache, reply, Fresh("books", reply)))

\* line 184, after line 183
AfterOmdb(s, TmdbSet, BooksSet, probe) ==
    IF s.run.exc # "" THEN Raised(s)
    ELSE \E reply \in Asked(s.cache["tmdb"], s.run.query, TmdbSet, probe) :
            AfterTmdb(Call("tmdb", s.run, s.cache, reply, Fresh("tmdb", reply)),
                      BooksSet, probe)

\* lines 183-224: the three searches in order, then the reply
Recommend(run, OmdbSet, TmdbSet, BooksSet, probe) ==
    \E reply \in Asked(cache["omdb"], run.query, OmdbSet, probe) :
        AfterOmdb(Call("omdb", run, cache, reply, Fresh("omdb", reply)),
                  TmdbSet, BooksSet, probe)

\* lines 226-229: the generative fallback
Answered(run, reply, r) ==
    Finish(Ended([run EXCEPT !.exc = r.exc, !.response = r.text,
                             !.mistral = reply],
                 IF r.exc # "" THEN <<>>
                 ELSE TextMsgs(split_message(r.text, DefaultMaxLength))),
           cache)

Chat(run, MistralSet) ==
    \E reply \in MistralSet : Answered(run, reply, get_mistral_response(reply))

\* handle_message on one update, with the replies the outside world may give
handle_message(user_message, OmdbSet, TmdbSet, BooksSet, MistralSet, probe) ==
    IF IsTriggered(user_message)
    THEN LET query == Query(user_message)
         IN  IF query = <<>>
             THEN Finish(Ended(Run(user_message, "prompt", query),
                               <<TextMsg(PROMPT)>>), cache)
             ELSE Recommend(Run(user_message, "recommend", query),
                            OmdbSet, TmdbSet, BooksSet, probe)
    ELSE Chat(Run(user_message, "chat", <<>>), MistralSet)

\* ------------------------------------------------ what the outside world sends
\* the updates: text messages with and without the keyword
Messages ==
    { <<" ","r","e","k","o","m","e","n","d","a","c","i","i"," ">>,
      <<"r","e","k","o","m","e","n","d","a","c","i","i">>,
      <<"R","e","k","o","m","e","n","d","a","c","i","i">>,
      <<"r","e","k","o","m","e","n","d","a","c","i","i"," ","k","i","n","o">>,
      <<"k","i","n","o">> }

\* -- OMDb: {Response, Search: [{Title, Year, Poster}]}
OmdbData(response, search) == [Response |-> response, Search |-> search]

OmdbItem(title, year, poster) == [Title |-> title, Year |-> year, Poster |-> poster]

OmdbFailure(kind) == Reply(kind, OmdbData(Absent, <<>>))

OmdbFound ==
    Reply("ok", OmdbData(TRUE_STR,
        << OmdbItem(<<"A">>, <<"1","9","9","9">>, <<"u","1">>),
           OmdbItem(<<"B">>, Absent, NOT_AVAILABLE),
           OmdbItem(Absent, <<"2","0","0","1">>, <<"u","2">>) >>))

OmdbReplies ==
    { OmdbFailure("http_error"),
      OmdbFailure("not_object"),
      Reply("ok", OmdbData(FALSE_STR, <<>>)),
      Reply("ok", OmdbData(TRUE_STR, <<>>)),
      OmdbFound }

\* -- TMDb: {results: [{media_type, title | name, release_date |
\*    first_air_date, poster_path}]}
TmdbItem(media_type, title, date, poster_path) ==
    [media_type |-> media_type,
     title |-> IF media_type = "movie" THEN title ELSE Absent,
     release_date |-> IF media_type = "movie" THEN date ELSE Absent,
     name |-> IF media_type = "movie" THEN Absent ELSE title,
     first_air_date |-> IF media_type = "movie" THEN Absent ELSE date,
     poster_path |-> poster_path]

TmdbFound ==
    Reply("ok", [results |->
        << TmdbItem("person", <<"P">>, Absent, <<"/","x">>),
           TmdbItem("tv", <<"F","o","o">>, <<"2","0","2","0","-","0","5","-","0","1">>, <<"/","p">>),
           TmdbItem("movie", <<"M">>, <<>>, Absent) >>])

TmdbReplies ==
    { Reply("timeout", [results |-> <<>>]),
      Reply("ok", [results |-> <<>>]),
      Reply("ok", [results |-> << TmdbItem("person", <<"P">>, Absent, <<"/","x">>) >>]),
      TmdbFound }

\* -- Google Books: {items: [{volumeInfo: {title, authors, publishedDate,
\*    imageLinks: {thumbnail}}}]}
BookItem(title, authors, published, thumbnail) ==
    [volumeInfo |-> [title |-> title, authors |-> authors,
                     publishedDate |-> published,
                     imageLinks |-> [thumbnail |-> thumbnail]]]

BooksFound ==
    Reply("ok", [items |->
        << BookItem(<<"T">>, << <<"X">>, <<"Y">> >>, <<"2","0","0","1">>, <<"u","3">>),
           BookItem(Absent, <<>>, Absent, Absent) >>])

BooksReplies ==
    { Reply("bad_json", [items |-> <<>>]),
      Reply("bad_json_legacy", [items |-> <<>>]),
      Reply("ok", [items |-> <<>>]),
      BooksFound }

\* -- Mistral: {choices: [{message: {content}}]}
MistralFailure(kind) == Reply(kind, MistralData(FALSE, <<>>))

MistralReplies ==
    { MistralFailure("timeout"),
      MistralFailure("http_error"),
      MistralFailure("bad_json"),
      MistralFailure("bad_json_legacy"),
      Reply("ok", MistralData(FALSE, <<>>)),
      Reply("ok", MistralData(TRUE, <<>>)),
      Reply("ok", MistralData(TRUE, <<MistralChoice("absent", Absent)>>)),
      Reply("ok", MistralData(TRUE, <<MistralChoice("string", Absent)>>)),
      Reply("ok", MistralData(TRUE, <<MistralChoice("object", Absent)>>)),
      Reply("ok", MistralData(TRUE, <<MistralChoice("object", <<" ","D","u","n","e"," ">>)>>)) }

\* ---------------------------------------------------------------- the bot
BotIdle ==
    /\ cache = [p \in Providers |-> <<>>]
    /\ handled = 0
    /\ last = NoRun

SplitIdle ==
    /\ text0 = <<>>
    /\ max_length = DefaultMaxLength
    /\ message = <<>>
    /\ parts = <<>>
    /\ sm_pc = "idle"

\* the process after main() has built the application: nothing handled,
\* the caches empty
Init ==
    /\ cache = [p \in Providers |-> <<>>]
    /\ handled = 0
    /\ last = NoRun
    /\ SplitIdle

\* one update is dispatched to handle_message, which runs to its end
Serve ==
    /\ handled < MaxHandled
    /\ \E user_message \in Messages :
           handle_message(user_message, OmdbReplies, TmdbReplies, BooksReplies,
                          MistralReplies, FALSE)

Next == Serve

Spec == Init /\ [][Next]_vars

\* -- the same bot over several updates, with fewer different replies
RepeatMessages ==
    { <<" ","r","e","k","o","m","e","n","d","a","c","i","i"," ">>,
      <<"r","e","k","o","m","e","n","d","a","c","i","i"," ","k","i","n","o">>,
      <<"k","i","n","o">> }

OmdbRepeatReplies ==
    { OmdbFailure("http_error"),
      Reply("ok", OmdbData(TRUE_STR, << OmdbItem(<<"A">>, <<"1","9","9","9">>, <<"u","1">>) >>)) }

TmdbRepeatReplies ==
    { Reply("timeout", [results |-> <<>>]),
      Reply("ok", [results |-> << TmdbItem("movie", <<"M">>, <<"2","0","2","0","-","0","5","-","0","1">>, Absent) >>]) }

BooksRepeatReplies ==
    { Reply("ok", [items |-> <<>>]),
      Reply("ok", [items |-> << BookItem(<<"T">>, << <<"X">> >>, <<"2","0","0","1">>, Absent) >>]) }

MistralRepeatReplies ==
    { MistralFailure("timeout"),
      Reply("ok", MistralData(TRUE, <<MistralChoice("object", <<" ","D","u","n","e"," ">>)>>)) }

ServeAgain ==
    /\ handled < MaxRepeats
    /\ \E user_message \in RepeatMessages :
           handle_message(user_message, OmdbRepeatReplies, TmdbRepeatReplies,
                          BooksRepeatReplies, MistralRepeatReplies, TRUE)

NextRepeat == ServeAgain

SpecRepeat == Init /\ [][NextRepeat]_vars
\* ---------------------------------------------------------------- actions
InitSplit ==
    \E in \in SplitInputs :
        /\ text0 = in[1]
        /\ max_length = in[2]
        /\ message = in[1]
        /\ parts = <<>>
        /\ sm_pc = "loop"
        /\ BotIdle

\* line 162 false: the loop is over, line 172 returns parts
SplitReturn ==
    /\ sm_pc = "loop"
    /\ message = <<>>
    /\ sm_pc' = "done"
    /\ UNCHANGED <<text0, max_length, message, parts, botvars>>

\* lines 163-165: the rest fits, append it and break
SplitLast ==
    /\ sm_pc = "loop"
    /\ message # <<>>
    /\ Len(message) <= max_length
    /\ LET r == SplitBody(message, max_length, parts)
       IN  /\ parts' = r.parts
           /\ message' = r.message
    /\ sm_pc' = "done"
    /\ UNCHANGED <<text0, max_length, botvars>>

\* lines 166-171: cut one part off and go round again
SplitCut ==
    /\ sm_pc = "loop"
    /\ message # <<>>
    /\ Len(message) > max_length
    /\ Len(parts) < MaxParts
    /\ LET r == SplitBody(message, max_length, parts)
       IN  /\ parts' = r.parts
           /\ message' = r.message
    /\ sm_pc' = "loop"
    /\ UNCHANGED <<text0, max_length, botvars>>

NextSplit == SplitReturn \/ SplitLast \/ SplitCut

SpecSplit == InitSplit /\ [][NextSplit]_vars

\* ------------------------------------------------- claims on split_message
NewlineFree(s) == \A i \in 1..Len(s) : s[i] # NL

\* every line of s (a maximal run without a newline) is at most m long
LinesFit(s, m) ==
    \A i \in 1..Len(s) : \A j \in i..Len(s) :
        NewlineFree(SubSeq(s, i, j)) => j - i + 1 <= m

CeilDiv(n, m) == (n + m - 1) \div m

\* C1: split_message is total: every pass through the loop that does not
\* leave it makes the remaining text strictly shorter (so the loop ends and
\* a finite sequence of chunks is returned).
C1_EveryPassShortens ==
    [][(sm_pc = "loop" /\ sm_pc' = "loop") => Len(message') < Len(message)]_vars

\* s has no empty line: it does not begin with a newline and no newline
\* follows another
NoEmptyLine(s) ==
    \A i \in 1..Len(s) : s[i] = NL => (i > 1 /\ s[i - 1] # NL)

\* C2: a cut at a newline leaves the newline out of the next chunk:
\* "abcde\nfghij\nklmno" with a window of 10 gives "abcde", "fghij", "klmno",
\* and when every line fits the window no returned chunk begins with a
\* newline.  (The general part is stated for the chunks that follow a cut at
\* a newline, which leaves a chunk shorter than the window, in texts without
\* an empty line: there a chunk can begin with a newline only if the cut
\* carried it over.)
C2_NewlineNotCarried ==
    sm_pc = "done" =>
        /\ (text0 = ExampleText /\ max_length = 10) =>
               parts = << <<"a","b","c","d","e">>,
                          <<"f","g","h","i","j">>,
                          <<"k","l","m","n","o">> >>
        /\ (LinesFit(text0, max_length) /\ NoEmptyLine(text0)) =>
               \A i \in 2..Len(parts) :
                   Len(parts[i - 1]) < max_length =>
                       (parts[i] = <<>> \/ parts[i][1] # NL)

\* C3: for a newline-free text of length n and a window m >= 1 the result
\* has exactly ceil(n/m) chunks, each at most m long, and their
\* concatenation in order is the text.
C3_NewlineFreeChunks ==
    (sm_pc = "done" /\ NewlineFree(text0)) =>
        /\ Len(parts) = CeilDiv(Len(text0), max_length)
        /\ \A i \in 1..Len(parts) : Len(parts[i]) <= max_length
        /\ Concat(parts) = text0

\* a newline-free text was split into three or more chunks, the last one
\* shorter than the window
C3_Witness ==
    /\ sm_pc = "done"
    /\ NewlineFree(text0)
    /\ Len(parts) >= 3
    /\ Len(parts[Len(parts)]) < max_length


\* ------------------------------------------------ claims on the providers
Label(p) ==
    CASE p = "omdb"  -> LABEL_OMDB
      [] p = "tmdb"  -> LABEL_TMDB
      [] p = "books" -> LABEL_BOOKS

\* the kinds of reply that are a failure of the provider: a transport
\* error, an error status, a body that is not JSON or not a JSON object
FailureKinds == {"timeout", "http_error", "bad_json", "bad_json_legacy", "not_object"}

\* the 0-based place of the first sub in s (sub occurs in s)
IndexOf(s, sub) ==
    CHOOSE i \in 0..(Len(s) - Len(sub)) :
        /\ SubSeq(s, i + 1, i + Len(sub)) = sub
        /\ \A j \in 0..(i - 1) : SubSeq(s, j + 1, j + Len(sub)) # sub

\* the texts of messages ms, joined
RECURSIVE TextOf(_)
TextOf(ms) == IF ms = <<>> THEN <<>> ELSE Head(ms).text \o TextOf(Tail(ms))

\* the text messages of a run that carry the reply text: those sent before
\* the media
ReplyText(run) == TextOf(SubSeq(run.sent, 1, Len(run.sent) - Len(run.media)))

\* the run is one the claims on failures are stated for: its query is what
\* was left of a lower-case keyword message (not a query that still holds
\* the keyword in another case, see C10), and no reply is that of a requests
\* older than 2.27
PlainRun(run) ==
    /\ ~Contains(lower(run.query), KEYWORD)
    /\ \A p \in Providers : run.replied[p] # "bad_json_legacy"
    /\ run.mistral.kind # "bad_json_legacy"

\* C4: a provider whose request fails (transport error, error status,
\* malformed body) returns the error text with no media instead of raising,
\* and handle_message still calls the other providers and shows every
\* provider's text under its label.
C4_ProviderFailureIsolated ==
    (last.branch = "recommend" /\ PlainRun(last)) =>
        /\ last.exc = ""
        /\ last.called = <<"omdb", "tmdb", "books">>
        /\ \A p \in Providers :
              /\ last.replied[p] \in FailureKinds =>
                    last.got[p] = Returns(FETCH_ERROR, <<>>)
              /\ last.got[p].text # <<>> =>
                    Contains(ReplyText(last), Label(p) \o <<NL>> \o last.got[p].text)

\* C5: the cache is only an optimization: every call returns what a request
\* made at that moment returns, also when the provider's answer has changed
\* since the query was first asked, and when the first request failed.
C5_CacheIsTransparent ==
    \A p \in last.drawn : last.got[p] = last.fresh[p]

\* C6: the reply to a non-empty query has the label of each provider with a
\* non-empty text exactly once and no label of a provider with an empty
\* text, the labelled sections in the order OMDb, TMDb, Google Books, and as
\* media the three media lists joined in that order; when all three texts
\* are empty the only reply is the "nothing found" text.  (The Google
\* Books search never returns an empty text, so no run has three empty
\* texts: the last part is also stated on the aggregation of three empty
\* results.)
C6_AggregateReply ==
    /\ Aggregate(NoResult, NoResult, NoResult) = [response |-> <<>>, media |-> <<>>]
    /\ (last.branch = "recommend" /\ last.exc = "") =>
        /\ \A p \in Providers :
              /\ Occurrences(ReplyText(last), Label(p))
                    = IF last.got[p].text # <<>> THEN 1 ELSE 0
              /\ last.got[p].text # <<>> =>
                    Contains(ReplyText(last), Label(p) \o <<NL>> \o last.got[p].text)
        /\ \A pq \in {<<"omdb", "tmdb">>, <<"omdb", "books">>, <<"tmdb", "books">>} :
              (last.got[pq[1]].text # <<>> /\ last.got[pq[2]].text # <<>>) =>
                  IndexOf(ReplyText(last), Label(pq[1]))
                      < IndexOf(ReplyText(last), Label(pq[2]))
        /\ last.media = last.got["omdb"].media \o last.got["tmdb"].media
                            \o last.got["books"].media
        /\ (\A p \in Providers : last.got[p].text = <<>>) =>
              (last.sent = <<TextMsg(NOT_FOUND)>> /\ last.media = <<>>)

\* a reply with the OMDb and Google Books sections but no TMDb section, and
\* media of OMDb (two entries) and of Google Books
C6_Witness ==
    /\ last.branch = "recommend"
    /\ last.exc = ""
    /\ last.got["omdb"].text # <<>>
    /\ Len(last.got["omdb"].media) = 2
    /\ last.got["tmdb"].text = <<>>
    /\ last.got["books"].media # <<>>
    /\ Occurrences(ReplyText(last), LABEL_TMDB) = 0
    /\ Len(last.media) = 3

\* C7: every media entry is relayed, in list order: an entry whose fetch
\* succeeds gives exactly one photo message with its caption, an entry whose
\* fetch fails (timeout, HTTP error) gives exactly one fallback text naming
\* its caption, and the entries after a failing one are still relayed.
C7_MediaRelay ==
    (last.branch = "recommend" /\ last.exc = "" /\ last.response # <<>>) =>
        /\ Len(last.fetch) = Len(last.media)
        /\ Len(last.sent)
              = Len(split_message(last.response, DefaultMaxLength)) + Len(last.media)
        /\ \A i \in 1..Len(last.media) :
              IF last.fetch[i] = "ok"
              THEN last.sent[Len(last.sent) - Len(last.media) + i]
                      = PhotoMsg(last.media[i][1], last.media[i][2])
              ELSE /\ last.sent[Len(last.sent) - Len(last.media) + i].kind = "text"
                   /\ Contains(last.sent[Len(last.sent) - Len(last.media) + i].text,
                               last.media[i][2])

\* three or more entries: one timed out, a later one answered with an error
\* status, and an entry after a failing one was sent as a photo
C7_Witness ==
    /\ last.branch = "recommend"
    /\ last.exc = ""
    /\ Len(last.media) >= 3
    /\ \E i, j, k \in 1..Len(last.media) :
          /\ i < j /\ j < k
          /\ last.fetch[i] = "timeout"
          /\ last.fetch[j] = "ok"
          /\ last.fetch[k] = "http_error"
          /\ last.sent[Len(last.sent) - Len(last.media) + j].kind = "photo"

\* C8: get_mistral_response never raises: on a transport error, an error
\* status and any malformed answer it returns an error text.
C8_MistralNeverRaises ==
    (last.branch = "chat" /\ PlainRun(last)) =>
        /\ last.exc = ""
        /\ (last.mistral.kind # "ok" \/ MistralLookupException(last.mistral.data) # "")
              => last.response \in {REQUEST_ERROR, MISTRAL_ANSWER_ERROR}

\* C9: when nothing is left of the message after the keyword is removed and
\* the rest trimmed, handle_message sends only the prompt, calls no provider
\* and leaves every cache as it was.
C9_EmptyQueryRejected ==
    [][(/\ handled' = handled + 1
        /\ IsTriggered(last'.user_message)
        /\ strip(remove(last'.user_message, KEYWORD)) = <<>>)
       => (/\ last'.sent = <<TextMsg(PROMPT)>>
           /\ last'.called = <<>>
           /\ last'.drawn = {}
           /\ cache' = cache)]_vars

\* the prompt was the answer to a message of keyword and blanks only, after
\* an earlier query had filled the caches
C9_Witness ==
    /\ handled >= 2
    /\ last.branch = "prompt"
    /\ IsTriggered(last.user_message)
    /\ last.sent = <<TextMsg(PROMPT)>>
    /\ \A p \in Providers : cache[p] # <<>>

\* C10: detection and removal of the keyword agree on letter case: the
\* query of a message with the keyword, in any case, does not contain the
\* keyword in any case, and a message that is only the keyword gets the
\* prompt and causes no provider call.
C10_KeywordCaseAgrees ==
    IsTriggered(last.user_message) =>
        /\ ~Contains(lower(last.query), KEYWORD)
        /\ lower(strip(last.user_message)) = KEYWORD =>
              (last.branch = "prompt" /\ last.called = <<>>)

====
